---- MODULE Spec2Model ----
(***************************************************************************)
(* Model of fantasy_app.py: the per-stat scraper (scrape_table), the       *)
(* aggregator (scrape_all_stats) and the display script that filters,      *)
(* splits, reorders and highlights the merged table.                       *)
(*                                                                         *)
(* Text is modelled as sequences of one-character strings, so that the     *)
(* numeric conversion is computed and not assumed.  Column labels are      *)
(* strings.  The label "... Delta% (Last 3)" stands for the source's       *)
(* label with the Greek capital delta, and the character "emdash" stands   *)
(* for the em dash.                                                        *)
(***************************************************************************)
EXTENDS Integers, Sequences, FiniteSets, TLC

VARIABLES web, ui, pc, i, attempts, all_dfs, errors, df, shown

vars == <<web, ui, pc, i, attempts, all_dfs, errors, df, shown>>

-----------------------------------------------------------------------------
(* Configuration                                                           *)

STAT_PAGES ==
  << [name |-> "Touchdowns per Game", slug |-> "touchdowns-per-game"],
     [name |-> "Opponent Touchdowns per Game", slug |-> "opponent-touchdowns-per-game"],
     [name |-> "Opponent Rushing Yards per Game", slug |-> "opponent-rushing-yards-per-game"],
     [name |-> "Opponent Passing Yards per Game", slug |-> "opponent-passing-yards-per-game"],
     [name |-> "Red Zone Scoring Attempts per Game", slug |-> "red-zone-scoring-attempts-per-game"],
     [name |-> "Red Zone Scoring %", slug |-> "red-zone-scoring-pct"],
     [name |-> "Opponent Red Zone Attempts per Game", slug |-> "opponent-red-zone-scoring-attempts-per-game"],
     [name |-> "Opponent Red Zone Scoring %", slug |-> "opponent-red-zone-scoring-pct"],
     [name |-> "Time of Possession % (Net of OT)", slug |-> "time-of-possession-pct-net-of-ot"] >>

BASE_URL == "https://www.teamrankings.com/nfl/stat/"

Slugs == {STAT_PAGES[k].slug : k \in 1..Len(STAT_PAGES)}

DeltaBases == <<"Opponent Rushing Yards per Game", "Opponent Passing Yards per Game">>

RushBase == DeltaBases[1]

PassBase == DeltaBases[2]

Last3Name(base) == base \o " (Last 3)"

DeltaName(base) == base \o " Delta% (Last 3)"

RushThreshold == 100

PassThreshold == 200

DeltaLimit == 10

GREEN == "background-color: lightgreen; color: black;"

-----------------------------------------------------------------------------
(* Cells: text, None, NaN, a rational number n/d (d > 0, lowest terms), or *)
(* an infinity (n is its sign).                                            *)

Str(t) == [k |-> "str", txt |-> t, n |-> 0, d |-> 1]

None == [k |-> "none", txt |-> <<>>, n |-> 0, d |-> 1]

NaN == [k |-> "nan", txt |-> <<>>, n |-> 0, d |-> 1]

Inf(sign) == [k |-> "inf", txt |-> <<>>, n |-> sign, d |-> 0]

Abs(x) == IF x < 0 THEN -x ELSE x

RECURSIVE Gcd(_, _)
Gcd(a, b) == IF b = 0 THEN a ELSE Gcd(b, a % b)

Num(n, d) ==
  LET g == Gcd(Abs(n), Abs(d))
      s == IF d < 0 THEN -1 ELSE 1
  IN  [k |-> "num", txt |-> <<>>, n |-> (s * n) \div g, d |-> (s * d) \div g]

notnull(c) == c.k \notin {"none", "nan"}

(* float arithmetic on cells: NaN propagates, x/0 is +-inf, 0/0 is NaN *)
Sub(a, b) ==
  IF a.k = "num" /\ b.k = "num" THEN Num(a.n * b.d - b.n * a.d, a.d * b.d)
  ELSE IF a.k = "inf" /\ b.k = "num" THEN a
  ELSE NaN

Div(a, b) ==
  IF a.k = "num" /\ b.k = "num"
  THEN IF b.n # 0 THEN Num(a.n * b.d, a.d * b.n)
       ELSE IF a.n = 0 THEN NaN
       ELSE Inf(IF a.n > 0 THEN 1 ELSE -1)
  ELSE NaN

Mul100(a) ==
  IF a.k = "num" THEN Num(a.n * 100, a.d)
  ELSE IF a.k = "inf" THEN a
  ELSE NaN

(* x > t and abs(x) < t for a cell x and an integer t; False on NaN *)
GreaterThan(c, t) ==
  \/ c.k = "num" /\ c.n > t * c.d
  \/ c.k = "inf" /\ c.n > 0

AbsLessThan(c, t) == c.k = "num" /\ Abs(c.n) < t * c.d

-----------------------------------------------------------------------------
(* Text                                                                    *)

DigitVal ==
  "0" :> 0 @@ "1" :> 1 @@ "2" :> 2 @@ "3" :> 3 @@ "4" :> 4 @@
  "5" :> 5 @@ "6" :> 6 @@ "7" :> 7 @@ "8" :> 8 @@ "9" :> 9

IsDigit(c) == c \in DOMAIN DigitVal

CodePoint ==
  "%" :> 37 @@ "," :> 44 @@ "-" :> 45 @@
  "0" :> 48 @@ "1" :> 49 @@ "2" :> 50 @@ "3" :> 51 @@ "4" :> 52 @@
  "5" :> 53 @@ "6" :> 54 @@ "7" :> 55 @@ "8" :> 56 @@ "9" :> 57 @@
  "B" :> 66 @@ "D" :> 68 @@ "F" :> 70 @@ "I" :> 73 @@ "J" :> 74 @@
  "N" :> 78 @@ "U" :> 85 @@ "Y" :> 89 @@
  "a" :> 97 @@ "e" :> 101 @@ "n" :> 110 @@ "o" :> 111 @@
  "emdash" :> 8212

Remove(s, ch) == SelectSeq(s, LAMBDA c : c # ch)

RECURSIVE DigitsValue(_)
DigitsValue(s) ==
  IF s = <<>> THEN 0
  ELSE 10 * DigitsValue(SubSeq(s, 1, Len(s) - 1)) + DigitVal[s[Len(s)]]

AllDigits(s) == s # <<>> /\ \A p \in 1..Len(s) : IsDigit(s[p])

(* pd.to_numeric(errors="coerce") on one text: an optionally signed digit  *)
(* string is its value, every other text of the universe is NaN            *)
to_numeric(s) ==
  IF AllDigits(s) THEN Num(DigitsValue(s), 1)
  ELSE IF s # <<>> /\ s[1] = "-" /\ AllDigits(Tail(s)) THEN Num(-DigitsValue(Tail(s)), 1)
  ELSE NaN

Placeholders ==
  { <<"emdash">>, <<"-">>, <<>>, <<"N", "o", "n", "e">>, <<"n", "a", "n">> }

astype_str(c) == IF c.k = "str" THEN c.txt ELSE <<"N", "o", "n", "e">>

(* one cell through convert_numeric's chain *)
ConvertCell(c) ==
  LET s == Remove(Remove(astype_str(c), ","), "%")
  IN  IF s \in Placeholders THEN NaN ELSE to_numeric(s)

RECURSIVE LexLess(_, _)
LexLess(a, b) ==
  IF b = <<>> THEN FALSE
  ELSE IF a = <<>> THEN TRUE
  ELSE IF CodePoint[a[1]] # CodePoint[b[1]] THEN CodePoint[a[1]] < CodePoint[b[1]]
  ELSE LexLess(Tail(a), Tail(b))

-----------------------------------------------------------------------------
(* Data frames: an ordered list of column labels (duplicates allowed) and  *)
(* rows of cells.  An operation that can raise returns [ok, df, exc].      *)

NoDF == [columns |-> <<>>, data |-> <<>>]

Ok(frame) == [ok |-> TRUE, df |-> frame, exc |-> ""]

Raise(e) == [ok |-> FALSE, df |-> NoDF, exc |-> e]

Range(s) == {s[p] : p \in 1..Len(s)}

Count(s, x) == Cardinality({p \in 1..Len(s) : s[p] = x})

IsUnique(s) == \A p, q \in 1..Len(s) : s[p] = s[q] => p = q

(* list.index: position of the first occurrence *)
Index(s, x) == CHOOSE p \in 1..Len(s) : s[p] = x /\ \A q \in 1..(p - 1) : s[q] # x

RECURSIVE Concat(_)
Concat(ss) == IF ss = <<>> THEN <<>> ELSE Head(ss) \o Concat(Tail(ss))

MaxLen(rows) == CHOOSE m \in {Len(rows[r]) : r \in 1..Len(rows)} :
                  \A r \in 1..Len(rows) : Len(rows[r]) <= m

(* pd.DataFrame(rows, columns=headers): ragged rows are padded with None   *)
(* to the longest row; the longest row must be as wide as the header list  *)
DataFrame(rows, headers) ==
  IF rows = <<>> THEN Ok([columns |-> headers, data |-> <<>>])
  ELSE IF MaxLen(rows) # Len(headers) THEN Raise("ValueError")
  ELSE Ok([columns |-> headers,
           data |-> [r \in 1..Len(rows) |->
                       [c \in 1..Len(headers) |->
                          IF c <= Len(rows[r]) THEN Str(rows[r][c]) ELSE None]]])

(* the positions a list of labels selects: every position of each label,   *)
(* label by label, so that a label held twice selects both columns          *)
Positions(columns, keys) ==
  Concat([j \in 1..Len(keys) |->
            SelectSeq([p \in 1..Len(columns) |-> p], LAMBDA p : columns[p] = keys[j])])

Take(frame, pos) ==
  [columns |-> [j \in 1..Len(pos) |-> frame.columns[pos[j]]],
   data |-> [r \in 1..Len(frame.data) |-> [j \in 1..Len(pos) |-> frame.data[r][pos[j]]]]]

(* df[keys] *)
Select(frame, keys) ==
  IF \E j \in 1..Len(keys) : keys[j] \notin Range(frame.columns) THEN Raise("KeyError")
  ELSE Ok(Take(frame, Positions(frame.columns, keys)))

(* df.drop(columns=[...], errors="ignore") *)
Drop(frame, names) ==
  Take(frame, SelectSeq([p \in 1..Len(frame.columns) |-> p],
                        LAMBDA p : frame.columns[p] \notin names))

(* one column of a frame whose label is unique *)
Column(frame, col) == [r \in 1..Len(frame.data) |-> frame.data[r][Index(frame.columns, col)]]

(* df[col] = values, for a new label (appended) or a unique one (replaced) *)
SetColumn(frame, col, values) ==
  IF col \in Range(frame.columns)
  THEN [frame EXCEPT !.data = [r \in 1..Len(frame.data) |->
                                 [frame.data[r] EXCEPT ![Index(frame.columns, col)] = values[r]]]]
  ELSE [columns |-> Append(frame.columns, col),
        data |-> [r \in 1..Len(frame.data) |-> Append(frame.data[r], values[r])]]

Empty(frame) == frame.columns = <<>> \/ frame.data = <<>>

convert_numeric(frame) ==
  IF \E p \in 1..Len(frame.columns) :
        frame.columns[p] # "Team" /\ Count(frame.columns, frame.columns[p]) > 1
  THEN Raise("AttributeError")
  ELSE Ok([frame EXCEPT !.data =
             [r \in 1..Len(frame.data) |->
                [p \in 1..Len(frame.columns) |->
                   IF frame.columns[p] # "Team" THEN ConvertCell(frame.data[r][p])
                   ELSE frame.data[r][p]]]])

-----------------------------------------------------------------------------
(* scrape_table                                                            *)

NonDataColumns == {"Home", "Away", "2024", "Rank"}

(* "team" in col.lower() and "last 3" in col.lower(), over the labels the   *)
(* pages of the model hold                                                  *)
ContainsTeam(col) == col \in {"Team", "Team (Last 3)"}

ContainsLast3(col) == col \in {"Last 3", "Team (Last 3)"}

NoneCol == "<None>"

Falsy(col) == col \in {NoneCol, ""}

(* next((col for col in columns if P(col)), None) *)
FirstCol(hits) == IF hits = <<>> THEN NoneCol ELSE hits[1]

NoTableError(stat_name) == "No table found for " \o stat_name

SchemaError(stat_name) == "Could not find Team or Stat column for " \o stat_name

ScrapeError(stat_name, e) == "Error scraping " \o stat_name \o ": " \o e

Failed(msg) == [df |-> NoDF, err |-> msg]

Scraped(frame) == [df |-> frame, err |-> ""]

(* the body rows: every tr but the first that holds at least one td *)
BodyRows(trs) == SelectSeq(Tail(trs), LAMBDA row : row # <<>>)

scrape_table(resp, stat_name) ==
  IF resp.kind = "error" THEN Failed(ScrapeError(stat_name, "RequestException"))
  ELSE IF resp.kind = "notable" THEN Failed(NoTableError(stat_name))
  ELSE
    LET made == DataFrame(BodyRows(resp.trs), resp.headers) IN
    IF ~made.ok THEN Failed(ScrapeError(stat_name, made.exc))
    ELSE
      LET d0 == Drop(made.df, NonDataColumns)
          team_col == FirstCol(SelectSeq(d0.columns, ContainsTeam))
          stat_col == FirstCol(SelectSeq(d0.columns,
                                         LAMBDA col : col # team_col /\ ~ContainsLast3(col)))
          last3_col == FirstCol(SelectSeq(d0.columns, ContainsLast3))
      IN
      IF Falsy(team_col) \/ Falsy(stat_col) THEN Failed(SchemaError(stat_name))
      ELSE
        LET cols_to_keep == IF ~Falsy(last3_col) THEN <<team_col, stat_col, last3_col>>
                            ELSE <<team_col, stat_col>>
            kept == Select(d0, cols_to_keep).df
            rename(col) == IF ~Falsy(last3_col) /\ col = last3_col THEN Last3Name(stat_name)
                           ELSE IF col = team_col THEN "Team"
                           ELSE IF col = stat_col THEN stat_name
                           ELSE col
            renamed == [kept EXCEPT !.columns = [p \in 1..Len(kept.columns) |-> rename(kept.columns[p])]]
            conv == convert_numeric(renamed)
        IN
        IF ~conv.ok THEN Failed(ScrapeError(stat_name, conv.exc))
        ELSE Scraped(conv.df)

-----------------------------------------------------------------------------
(* scrape_all_stats                                                        *)

(* the error list rebuilt at each failure instead of extended *)
record_error_reset(errs, err) == IF err # "" THEN <<err>> ELSE errs

record_error(errs, err) == IF err # "" THEN Append(errs, err) ELSE errs

record_df(dfs, r) == IF r.err = "" THEN Append(dfs, r.df) ELSE dfs

TeamCells(frame) == Column(frame, "Team")

(* the merge keys in the order of the result: sorted text, nulls last *)
KeyLess(a, b) == notnull(a) /\ (~notnull(b) \/ LexLess(a.txt, b.txt))

RECURSIVE SortedKeys(_)
SortedKeys(S) ==
  IF S = {} THEN <<>>
  ELSE LET m == CHOOSE x \in S : \A y \in S \ {x} : KeyLess(x, y)
       IN  <<m>> \o SortedKeys(S \ {m})

JoinKeys(lkeys, rkeys, how) ==
  IF how = "outer" THEN Range(lkeys) \cup Range(rkeys)
  ELSE IF how = "left" THEN Range(lkeys)
  ELSE Range(lkeys) \cap Range(rkeys)

(* pd.merge(left, right, on="Team", how=how) for how in outer, left, inner *)
merge_how(left, right, how) ==
  IF Count(left.columns, "Team") # 1 \/ Count(right.columns, "Team") # 1
  THEN Raise("ValueError")
  ELSE
    LET tl == Index(left.columns, "Team")
        tr == Index(right.columns, "Team")
        rest == SelectSeq([p \in 1..Len(right.columns) |-> p], LAMBDA p : p # tr)
        both == (Range(left.columns) \cap Range(right.columns)) \ {"Team"}
        lcols == [p \in 1..Len(left.columns) |->
                    IF left.columns[p] \in both THEN left.columns[p] \o "_x"
                    ELSE left.columns[p]]
        rcols == [j \in 1..Len(rest) |->
                    IF right.columns[rest[j]] \in both THEN right.columns[rest[j]] \o "_y"
                    ELSE right.columns[rest[j]]]
        keys == SortedKeys(JoinKeys(TeamCells(left), TeamCells(right), how))
        RightRest(row) == [j \in 1..Len(rest) |-> row[rest[j]]]
        LeftPad(key) == [p \in 1..Len(left.columns) |-> IF p = tl THEN key ELSE NaN]
        RightPad == [j \in 1..Len(rest) |-> NaN]
        Block(key) ==
          LET L == SelectSeq(left.data, LAMBDA row : row[tl] = key)
              R == SelectSeq(right.data, LAMBDA row : row[tr] = key)
          IN  IF L = <<>> THEN [b \in 1..Len(R) |-> LeftPad(key) \o RightRest(R[b])]
              ELSE IF R = <<>> THEN [a \in 1..Len(L) |-> L[a] \o RightPad]
              ELSE Concat([a \in 1..Len(L) |->
                             [b \in 1..Len(R) |-> L[a] \o RightRest(R[b])]])
    IN  Ok([columns |-> lcols \o rcols,
            data |-> Concat([j \in 1..Len(keys) |-> Block(keys[j])])])

(* a join that keeps the keys of the left table only *)
merge_left(left, right) == merge_how(left, right, "left")

(* line 119: pd.merge(merged, df, on="Team", how="outer") *)
merge(left, right) == merge_how(left, right, "outer")

(* merged = all_dfs[0]; for df in all_dfs[1:]: merged = pd.merge(...) *)
RECURSIVE FoldMerge(_, _)
FoldMerge(merged, dfs) ==
  IF dfs = <<>> THEN Ok(merged)
  ELSE LET m == merge(merged, Head(dfs))
       IN  IF m.ok THEN FoldMerge(m.df, Tail(dfs)) ELSE m

Delta(last3, season) == Mul100(Div(Sub(last3, season), season))

(* the derived columns, one base after the other *)
RECURSIVE AddDeltas(_, _)
AddDeltas(merged, bases) ==
  IF bases = <<>> THEN merged
  ELSE LET base == Head(bases)
           next ==
             IF base \in Range(merged.columns) /\ Last3Name(base) \in Range(merged.columns)
             THEN SetColumn(merged, DeltaName(base),
                            [r \in 1..Len(merged.data) |->
                               Delta(Column(merged, Last3Name(base))[r],
                                     Column(merged, base)[r])])
             ELSE merged
       IN  AddDeltas(next, Tail(bases))

(* list.pop(p) and list.insert(q, x), positions counted from 1; an insert  *)
(* past the end appends                                                     *)
Pop(s, p) == SubSeq(s, 1, p - 1) \o SubSeq(s, p + 1, Len(s))

Insert(s, q, x) ==
  LET m == IF q - 1 > Len(s) THEN Len(s) ELSE q - 1
  IN  SubSeq(s, 1, m) \o <<x>> \o SubSeq(s, m + 1, Len(s))

RECURSIVE ReorderCols(_, _)
ReorderCols(cols, bases) ==
  IF bases = <<>> THEN cols
  ELSE LET last3 == Last3Name(Head(bases))
           delta == DeltaName(Head(bases))
           next ==
             IF last3 \in Range(cols) /\ delta \in Range(cols)
             THEN LET last3_idx == Index(cols, last3)
                  IN  Insert(Pop(cols, Index(cols, delta)), last3_idx + 1, delta)
             ELSE cols
       IN  ReorderCols(next, Tail(bases))

reorder(frame) == Select(frame, ReorderCols(frame.columns, DeltaBases))

(* lines 114-139: what scrape_all_stats returns, or the exception it raises *)
scrape_all_stats_tail(dfs) ==
  IF dfs = <<>> THEN Ok(NoDF)
  ELSE LET m == FoldMerge(Head(dfs), Tail(dfs))
       IN  IF ~m.ok THEN m ELSE reorder(AddDeltas(m.df, DeltaBases))

-----------------------------------------------------------------------------
(* The display script                                                      *)

(* the threshold compared with >= instead of > *)
is_green_inclusive(val, diff, threshold) ==
  /\ notnull(val) /\ notnull(diff)
  /\ (GreaterThan(val, threshold) \/ val = Num(threshold, 1))
  /\ AbsLessThan(diff, DeltaLimit)

(* pd.notnull(val) and pd.notnull(diff), then val > threshold and abs(diff) < 10 *)
is_green(val, diff, threshold) ==
  /\ notnull(val) /\ notnull(diff)
  /\ GreaterThan(val, threshold) /\ AbsLessThan(diff, DeltaLimit)

highlight_trends(cols, row) ==
  LET rush_on ==
        /\ RushBase \in Range(cols) /\ DeltaName(RushBase) \in Range(cols)
        /\ is_green(row[Index(cols, RushBase)], row[Index(cols, DeltaName(RushBase))],
                    RushThreshold)
      pass_on ==
        /\ PassBase \in Range(cols) /\ DeltaName(PassBase) \in Range(cols)
        /\ is_green(row[Index(cols, PassBase)], row[Index(cols, DeltaName(PassBase))],
                    PassThreshold)
  IN  [p \in 1..Len(cols) |->
         IF rush_on /\ p = Index(cols, DeltaName(RushBase)) THEN GREEN
         ELSE IF pass_on /\ p = Index(cols, DeltaName(PassBase)) THEN GREEN
         ELSE ""]

(* filtered_df[(filtered_df[base] > threshold) & (filtered_df[delta].abs() < 10)] *)
filter_green(frame, base, threshold) ==
  IF base \notin Range(frame.columns) \/ DeltaName(base) \notin Range(frame.columns)
  THEN Raise("KeyError")
  ELSE Ok([frame EXCEPT !.data =
             SelectSeq(frame.data, LAMBDA row :
                /\ GreaterThan(row[Index(frame.columns, base)], threshold)
                /\ AbsLessThan(row[Index(frame.columns, DeltaName(base))], DeltaLimit))])

OFFENSE ==
  << "Touchdowns per Game", "Touchdowns per Game (Last 3)",
     "Red Zone Scoring Attempts per Game", "Red Zone Scoring Attempts per Game (Last 3)",
     "Red Zone Scoring %", "Red Zone Scoring % (Last 3)",
     "Time of Possession % (Net of OT)", "Time of Possession % (Net of OT) (Last 3)" >>

OppTD == "Opponent Touchdowns per Game"

PassLast3 == Last3Name(PassBase)

(* lines 239-247 *)
defense_reorder(defense_cols) ==
  IF PassLast3 \notin Range(defense_cols) THEN defense_cols
  ELSE
    LET pass_last3_idx == Index(defense_cols, PassLast3)
        has_td == OppTD \in Range(defense_cols)
        step1 == IF has_td
                 THEN Insert(Pop(defense_cols, Index(defense_cols, OppTD)), pass_last3_idx + 1, OppTD)
                 ELSE defense_cols
        idx2 == IF has_td THEN pass_last3_idx + 1 ELSE pass_last3_idx
    IN  IF Last3Name(OppTD) \in Range(step1)
        THEN Insert(Pop(step1, Index(step1, Last3Name(OppTD))), idx2 + 1, Last3Name(OppTD))
        ELSE step1

NotShown ==
  [outcome |-> "none", filtered_df |-> NoDF, offense_cols |-> <<>>,
   defense_cols |-> <<>>, defense_df |-> NoDF, styles |-> <<>>]

(* lines 195-286: what the page shows for the table frame and the sidebar u *)
render(frame, u) ==
  IF Empty(frame) THEN [NotShown EXCEPT !.outcome = "nodata"]
  ELSE
    LET stat_cols == SelectSeq(frame.columns, LAMBDA col : col # "Team")
        selected_stats == SelectSeq(stat_cols, LAMBDA col : col \notin u.unchecked)
    IN
    IF selected_stats = <<>> THEN [NotShown EXCEPT !.outcome = "noselection"]
    ELSE
      LET f0 == Select(frame, <<"Team">> \o selected_stats)
          f1 == IF u.filter_rush THEN filter_green(f0.df, RushBase, RushThreshold) ELSE f0
          f2 == IF f1.ok /\ u.filter_pass THEN filter_green(f1.df, PassBase, PassThreshold) ELSE f1
      IN
      IF ~f2.ok THEN [NotShown EXCEPT !.outcome = "crashed"]
      ELSE
        LET filtered_df == f2.df
            offense_cols == SelectSeq(OFFENSE, LAMBDA c : c \in Range(filtered_df.columns))
            defense_cols ==
              defense_reorder(SelectSeq(filtered_df.columns,
                                        LAMBDA c : c \notin Range(offense_cols) \cup {"Team"}))
            defense_df == IF defense_cols # <<>>
                          THEN Select(filtered_df, <<"Team">> \o defense_cols).df
                          ELSE NoDF
            out == [outcome |-> "rendered", filtered_df |-> filtered_df,
                    offense_cols |-> offense_cols, defense_cols |-> defense_cols,
                    defense_df |-> defense_df, styles |-> <<>>]
        IN
        IF Empty(defense_df) THEN out
        (* Styler.apply refuses columns that are not unique *)
        ELSE IF ~IsUnique(defense_df.columns) THEN [out EXCEPT !.outcome = "crashed"]
        ELSE [out EXCEPT !.styles =
                [r \in 1..Len(defense_df.data) |->
                   highlight_trends(defense_df.columns, defense_df.data[r])]]

-----------------------------------------------------------------------------
(* The pages the site may serve, and the sidebar                           *)

RequestFails == [kind |-> "error", headers |-> <<>>, trs |-> <<>>]

NoTable == [kind |-> "notable", headers |-> <<>>, trs |-> <<>>]

(* the first tr is the header row: it holds th cells and no td *)
Page(headers, rows) == [kind |-> "table", headers |-> headers, trs |-> <<<<>>>> \o rows]

BUF == <<"B", "U", "F">>

NYJ == <<"N", "Y", "J">>

IND == <<"I", "N", "D">>

FullRow(headers, team, season, last3) ==
  [p \in 1..Len(headers) |->
     IF ContainsTeam(headers[p]) THEN team
     ELSE IF ContainsLast3(headers[p]) THEN last3
     ELSE IF headers[p] = "Rank" THEN <<"1">>
     ELSE season]

(* a row whose last cell is missing from the markup *)
ShortRow(headers, team, season, last3) ==
  SubSeq(FullRow(headers, team, season, last3), 1, Len(headers) - 1)

Usual == <<"Rank", "Team", "2025", "Last 3">>

Layouts ==
  { Usual,
    <<"Rank", "Team", "2025">>,
    <<"Team", "Team", "2025", "Last 3">>,
    <<"Team (Last 3)", "2025">>,
    <<"Rank", "2025", "Last 3">> }

T120 == <<"1", "2", "0">>

T108 == <<"1", "0", "8">>

T1200 == <<"1", ",", "2", "0", "0">>

Dash == <<"emdash">>

MaxShort == 1

TeamRows(headers, S) ==
  (IF BUF \in S THEN <<FullRow(headers, BUF, T120, T108)>> ELSE <<>>)
  \o (IF NYJ \in S THEN <<FullRow(headers, NYJ, T1200, Dash)>> ELSE <<>>)

ShortRows(headers, n) == [j \in 1..n |-> ShortRow(headers, IND, T120, T108)]

PlainPage == Page(Usual, TeamRows(Usual, {BUF}))

RichPages ==
  {RequestFails, NoTable}
  \cup {Page(h, TeamRows(h, {BUF})) : h \in Layouts}
  \cup {Page(Usual, TeamRows(Usual, S) \o ShortRows(Usual, n)) :
          S \in SUBSET {BUF, NYJ}, n \in 0..MaxShort}

RichSlugs == {STAT_PAGES[k].slug : k \in 2..4}

DefaultUi == [unchecked |-> {}, filter_rush |-> FALSE, filter_pass |-> FALSE]

(* every pattern of failing and answering pages *)
WebPatterns == [Slugs -> {RequestFails, PlainPage}]

(* three stats with every page of the catalogue, the others failing *)
WebRich ==
  {[s \in Slugs |-> IF s \in RichSlugs THEN w[s] ELSE RequestFails] :
     w \in [RichSlugs -> RichPages]}

WebAllPlain == [s \in Slugs |-> PlainPage]

DefenseToggles ==
  { OppTD, Last3Name(OppTD), Last3Name(RushBase), PassBase, PassLast3,
    DeltaName(PassBase), "Opponent Red Zone Attempts per Game",
    "Opponent Red Zone Scoring %" }

UiToggles ==
  [unchecked : SUBSET DefenseToggles, filter_rush : {FALSE}, filter_pass : BOOLEAN]

(* season and Last-3 texts around the thresholds and the +-10 limit *)
Digits(n) ==
  LET D == <<"0", "1", "2", "3", "4", "5", "6", "7", "8", "9">>
  IN  IF n < 10 THEN <<D[n + 1]>>
      ELSE IF n < 100 THEN <<D[(n \div 10) + 1], D[(n % 10) + 1]>>
      ELSE <<D[(n \div 100) + 1], D[((n \div 10) % 10) + 1], D[(n % 10) + 1]>>

RushSeasons == {Dash, Digits(0), Digits(100), Digits(120)}

RushLast3s == {Dash, Digits(0), Digits(108), Digits(109), Digits(131), Digits(132)}

PassSeasons == {Dash, Digits(0), Digits(200), Digits(220)}

PassLast3s == {Dash, Digits(0), Digits(198), Digits(199), Digits(241), Digits(242)}

ValuePage(season, last3, season2, last32) ==
  Page(Usual, <<FullRow(Usual, BUF, season, last3), FullRow(Usual, NYJ, season2, last32)>>)

WebValues ==
  {[s \in Slugs |->
      IF s = STAT_PAGES[3].slug THEN ValuePage(rs, rl, Digits(120), Digits(115))
      ELSE IF s = STAT_PAGES[4].slug THEN ValuePage(Digits(220), Digits(215), Digits(220), Digits(198))
      ELSE RequestFails] : rs \in RushSeasons, rl \in RushLast3s}
  \cup
  {[s \in Slugs |->
      IF s = STAT_PAGES[3].slug THEN ValuePage(Digits(120), Digits(115), Digits(120), Digits(108))
      ELSE IF s = STAT_PAGES[4].slug THEN ValuePage(ps, pl, Digits(220), Digits(215))
      ELSE RequestFails] : ps \in PassSeasons, pl \in PassLast3s}

UiFilters ==
  [unchecked : SUBSET {RushBase, DeltaName(RushBase), PassBase, DeltaName(PassBase)},
   filter_rush : BOOLEAN, filter_pass : BOOLEAN]

-----------------------------------------------------------------------------
(* The run of the script                                                   *)

Init ==
  /\ \/ web \in WebPatterns /\ ui = DefaultUi
     \/ web \in WebRich /\ ui = DefaultUi
     \/ web = WebAllPlain /\ ui \in UiToggles
     \/ web \in WebValues /\ ui \in UiFilters
  /\ pc = "scrape"
  /\ i = 1
  /\ attempts = <<>>
  /\ all_dfs = <<>>
  /\ errors = <<>>
  /\ df = NoDF
  /\ shown = NotShown

(* one turn of the loop of scrape_all_stats *)
ScrapeNext ==
  /\ pc = "scrape"
  /\ LET stat_name == STAT_PAGES[i].name
         slug == STAT_PAGES[i].slug
         r == scrape_table(web[slug], stat_name)
     IN  /\ attempts' = Append(attempts, BASE_URL \o slug)
         /\ errors' = record_error(errors, r.err)
         /\ all_dfs' = record_df(all_dfs, r)
  /\ i' = i + 1
  /\ pc' = IF i = Len(STAT_PAGES) THEN "aggregate" ELSE "scrape"
  /\ UNCHANGED <<web, ui, df, shown>>

(* the rest of scrape_all_stats: it returns, or raises and ends the script *)
Aggregate ==
  /\ pc = "aggregate"
  /\ LET r == scrape_all_stats_tail(all_dfs)
     IN  /\ df' = r.df
         /\ pc' = IF r.ok THEN "returned" ELSE "raised"
  /\ UNCHANGED <<web, ui, i, attempts, all_dfs, errors, shown>>

Display ==
  /\ pc = "returned"
  /\ shown' = render(df, ui)
  /\ pc' = "done"
  /\ UNCHANGED <<web, ui, i, attempts, all_dfs, errors, df>>

Next == ScrapeNext \/ Aggregate \/ Display

Spec == Init /\ [][Next]_vars

-----------------------------------------------------------------------------
(* Properties                                                              *)

Returned == pc \in {"returned", "done"}

StatName(k) == STAT_PAGES[k].name

(* stat k contributed a table / a Last-3 column to all_dfs *)
Succeeded(k) == \E j \in 1..Len(all_dfs) : StatName(k) \in Range(all_dfs[j].columns)

CarriesLast3(k) == \E j \in 1..Len(all_dfs) : Last3Name(StatName(k)) \in Range(all_dfs[j].columns)

FailedSoFar == SelectSeq([k \in 1..(i - 1) |-> k], LAMBDA k : ~Succeeded(k))

ErrorsOf(name) ==
  {NoTableError(name), SchemaError(name)}
  \cup {ScrapeError(name, e) : e \in {"RequestException", "ValueError", "AttributeError", "KeyError"}}

KeySet(frame) == Range(TeamCells(frame))

MaxFold == 3

Perms(n) == {f \in [1..n -> 1..n] : \A a, b \in 1..n : f[a] = f[b] => a = b}

FoldIn(order) ==
  LET seq == [j \in 1..Len(all_dfs) |-> all_dfs[order[j]]]
  IN  FoldMerge(Head(seq), Tail(seq))

(* C1: scrape_all_stats never raises: whatever the pages hold and whichever *)
(* requests fail, it returns a table and an error list.                     *)
C1_NeverRaises == pc # "raised"

(* C2: every entry of STAT_PAGES is requested exactly once, in declared     *)
(* order, whatever failed before it; the error list holds one entry per     *)
(* failed stat, in declared order; with no success the returned table is    *)
(* empty and the error list is as long as STAT_PAGES.                       *)
C2_EveryStatAttemptedOnce ==
  /\ attempts = [k \in 1..(i - 1) |-> BASE_URL \o STAT_PAGES[k].slug]
  /\ pc # "scrape" => i = Len(STAT_PAGES) + 1
  /\ Len(errors) = Len(FailedSoFar)
  /\ \A j \in 1..Len(errors) : errors[j] \in ErrorsOf(StatName(FailedSoFar[j]))
  /\ Len(all_dfs) + Len(errors) = i - 1
  /\ (Returned /\ all_dfs = <<>>) => (Empty(df) /\ Len(errors) = Len(STAT_PAGES))

(* a run in which a failed stat is followed by a stat that succeeds, and   *)
(* several stats fail                                                       *)
C2_Witness ==
  /\ pc = "returned"
  /\ Len(errors) >= 2
  /\ ~Succeeded(1)
  /\ \E k \in 2..Len(STAT_PAGES) : Succeeded(k)

(* C3: the team keys of the merged table are the union of the team keys of *)
(* the tables merged, in whatever order they are folded, and a team absent  *)
(* from a table has missing cells in the columns that table contributes.    *)
C3_TeamKeysAreTheUnion ==
  (Returned /\ all_dfs # <<>>) =>
    /\ KeySet(df) = UNION {KeySet(all_dfs[j]) : j \in 1..Len(all_dfs)}
    /\ Len(all_dfs) <= MaxFold =>
         \A f \in Perms(Len(all_dfs)) : FoldIn(f).ok /\ KeySet(FoldIn(f).df) = KeySet(df)
    /\ \A r \in 1..Len(df.data), j \in 1..Len(all_dfs) :
         TeamCells(df)[r] \notin KeySet(all_dfs[j]) =>
           \A p \in 1..Len(all_dfs[j].columns) :
             all_dfs[j].columns[p] # "Team" =>
               Column(df, all_dfs[j].columns[p])[r] = NaN

(* two merged tables with different teams: a row of the result whose team   *)
(* one of them lacks                                                        *)
C3_Witness ==
  /\ Returned
  /\ Len(all_dfs) >= 2
  /\ \E r \in 1..Len(df.data), j \in 1..Len(all_dfs) :
       /\ TeamCells(df)[r] \notin KeySet(all_dfs[j])
       /\ KeySet(all_dfs[j]) # {}

ExpectedColumns ==
  <<"Team">> \o
  Concat([k \in 1..Len(STAT_PAGES) |->
            IF ~Succeeded(k) THEN <<>>
            ELSE <<StatName(k)>> \o
                 (IF ~CarriesLast3(k) THEN <<>>
                  ELSE <<Last3Name(StatName(k))>> \o
                       (IF StatName(k) \in Range(DeltaBases)
                        THEN <<DeltaName(StatName(k))>> ELSE <<>>))])

(* C4: the returned table's columns are Team, then per successful stat in  *)
(* declared order its column, its Last-3 column and, right after that, its  *)
(* delta column; no column is dropped or duplicated by the reorder.         *)
C4_ColumnOrder ==
  (Returned /\ all_dfs # <<>>) => df.columns = ExpectedColumns

(* C5: the delta cell is (last3 - season) / season * 100 when both are     *)
(* present and season is not zero, and missing otherwise.                   *)
C5_DeltaCell ==
  Returned =>
    \A b \in 1..Len(DeltaBases) :
      DeltaName(DeltaBases[b]) \in Range(df.columns) =>
        \A r \in 1..Len(df.data) :
          LET season == Column(df, DeltaBases[b])[r]
              last3 == Column(df, Last3Name(DeltaBases[b]))[r]
              delta == Column(df, DeltaName(DeltaBases[b]))[r]
          IN  IF season.k = "num" /\ last3.k = "num" /\ season.n # 0
              THEN /\ delta.k = "num"
                   /\ delta.n * season.n * last3.d
                        = 100 * (last3.n * season.d - season.n * last3.d) * delta.d
              ELSE ~notnull(delta)

MarkedGreen(cols, row, base) ==
  /\ DeltaName(base) \in Range(cols)
  /\ highlight_trends(cols, row)[Index(cols, DeltaName(base))] = GREEN

(* C6: with a green filter enabled the page never fails and keeps exactly   *)
(* the rows whose delta cell highlight_trends would mark green, whatever    *)
(* columns are selected or were scraped.                                    *)
C6_FilterAgreesWithHighlight ==
  (pc = "done" /\ shown.outcome \in {"rendered", "crashed"}
     /\ (ui.filter_rush \/ ui.filter_pass)) =>
    /\ shown.outcome = "rendered"
    /\ LET all == Select(df, <<"Team">> \o
                     SelectSeq(df.columns, LAMBDA c : c # "Team" /\ c \notin ui.unchecked)).df
       IN  shown.filtered_df.data =
             SelectSeq(all.data, LAMBDA row :
               /\ ui.filter_rush => MarkedGreen(all.columns, row, RushBase)
               /\ ui.filter_pass => MarkedGreen(all.columns, row, PassBase))

Qualifies(cols, row, base, threshold) ==
  /\ base \in Range(cols)
  /\ DeltaName(base) \in Range(cols)
  /\ LET season == row[Index(cols, base)]
         delta == row[Index(cols, DeltaName(base))]
     IN  /\ season.k = "num" /\ delta.k = "num"
         /\ season.n > threshold * season.d
         /\ delta.n < 10 * delta.d
         /\ delta.n > -10 * delta.d

(* C7: a delta cell is green exactly when season and delta are present,    *)
(* season > 100 (rushing) or 200 (passing) and -10 < delta < 10, strictly;  *)
(* no other cell is styled.                                                 *)
C7_GreenIffQualifies ==
  (pc = "done" /\ shown.outcome = "rendered") =>
    \A r \in 1..Len(shown.styles) :
      LET cols == shown.defense_df.columns
          row == shown.defense_df.data[r]
      IN  \A p \in 1..Len(cols) :
            shown.styles[r][p] =
              IF \/ cols[p] = DeltaName(RushBase) /\ Qualifies(cols, row, RushBase, 100)
                 \/ cols[p] = DeltaName(PassBase) /\ Qualifies(cols, row, PassBase, 200)
              THEN GREEN ELSE ""

(* a displayed row with season 120 and delta exactly -10 that is not green, *)
(* beside a row whose rushing delta is green                                *)
C7_Witness ==
  /\ pc = "done"
  /\ shown.outcome = "rendered"
  /\ \E r1, r2 \in 1..Len(shown.styles) :
       LET cols == shown.defense_df.columns
       IN  /\ RushBase \in Range(cols) /\ DeltaName(RushBase) \in Range(cols)
           /\ shown.defense_df.data[r1][Index(cols, RushBase)] = Num(120, 1)
           /\ shown.defense_df.data[r1][Index(cols, DeltaName(RushBase))] = Num(-10, 1)
           /\ shown.styles[r1][Index(cols, DeltaName(RushBase))] = ""
           /\ shown.styles[r2][Index(cols, DeltaName(RushBase))] = GREEN

(* C8: a table scrape_table returns has exactly one Team column and at     *)
(* most two value columns, named after the stat and its Last 3.             *)
C8_OneTeamColumn ==
  \A j \in 1..Len(all_dfs) :
    LET cols == all_dfs[j].columns
    IN  /\ Count(cols, "Team") = 1
        /\ Len(cols) <= 3
        /\ \E k \in 1..Len(STAT_PAGES) :
             /\ StatName(k) \in Range(cols)
             /\ Range(cols) \subseteq {"Team", StatName(k), Last3Name(StatName(k))}

IsShort(resp, row) == row # <<>> /\ Len(row) < Len(resp.headers)

(* C9: a body row with at least one cell and fewer cells than headers is   *)
(* skipped: the stat reports no error and its table holds the well-formed   *)
(* rows only.                                                               *)
C9_ShortRowsSkipped ==
  \A k \in 1..(i - 1) :
    LET resp == web[STAT_PAGES[k].slug]
        body == IF resp.kind = "table" THEN Tail(resp.trs) ELSE <<>>
    IN  (resp.headers = Usual /\ \E r \in 1..Len(body) : IsShort(resp, body[r])) =>
          \E j \in 1..Len(all_dfs) :
            /\ StatName(k) \in Range(all_dfs[j].columns)
            /\ Len(all_dfs[j].data)
                 = Len(SelectSeq(body, LAMBDA row : Len(row) = Len(resp.headers)))

(* C10: when Opponent Passing Yards per Game (Last 3) is shown, Opponent   *)
(* Touchdowns per Game comes directly after it and Opponent Touchdowns per  *)
(* Game (Last 3) directly after that, the other columns keeping their order.*)
C10_TouchdownsAfterPassLast3 ==
  (pc = "done" /\ shown.outcome = "rendered" /\ PassLast3 \in Range(shown.defense_cols)) =>
    LET c == shown.defense_cols
        at == Index(c, PassLast3)
        td == OppTD \in Range(c)
        td3 == Last3Name(OppTD) \in Range(c)
        others(s) == SelectSeq(s, LAMBDA x : x \notin {OppTD, Last3Name(OppTD)})
    IN  /\ td => (at + 1 <= Len(c) /\ c[at + 1] = OppTD)
        /\ td3 => LET q == IF td THEN at + 2 ELSE at + 1
                  IN  q <= Len(c) /\ c[q] = Last3Name(OppTD)
        /\ others(c) = others(SelectSeq(shown.filtered_df.columns,
                                        LAMBDA x : x \notin Range(shown.offense_cols) \cup {"Team"}))

====
